---- MODULE Spec2Model ----
(***************************************************************************)
(* State-machine model of the Dot Game server: the express routes of       *)
(* server.js, the passport verify callback of passport-config.js and the   *)
(* two tables (users, user_stats) they read and write.                     *)
(*                                                                         *)
(* Every await on a database query is a suspension point: a handler that   *)
(* issues two queries is two actions (the statement executed by the first  *)
(* query, then the statement executed by the second one and the response), *)
(* and handlers of concurrent requests interleave between them.            *)
(*                                                                         *)
(* The database answers every statement: a statement fails only when the   *)
(* schema refuses it (users.email UNIQUE, user_stats.user_id UNIQUE, the   *)
(* integer counters).  The strategy hands the email and password fields of *)
(* the login form to the verify callback as they were submitted.           *)
(***************************************************************************)
EXTENDS Integers, Sequences, FiniteSets, Bags, TLC

\* ------------------------------------------------------------------ bounds
\* register submissions accepted by the model in one behaviour
MaxRegs == 2
\* game-result submissions accepted by the model in one behaviour
MaxSubs == 3
\* requests whose handler is suspended on a query at the same time
MaxInflight == 2

\* ------------------------------------------------------- program constants
\* bcrypt.hash(req.body.password, 10)
SaltRounds == 10
\* ... ORDER BY us.best_score DESC LIMIT 3
LeaderboardLimit == 3

\* -------------------------------------------------------------- input sets
Sessions == {"s1", "s2"}
Emails == {"a@x.com", "b@x.com"}
Names == {"Alice"}
\* req.body.password: <<>> is an absent field, <<"">> the empty string
RegisterPasswords == {<<"">>, <<"pw123">>}
LoginPasswords == {<<>>, <<"">>, <<"pw123">>, <<"bad">>}
\* the salts bcrypt may draw when it hashes
Salts == {1}
\* req.body.score as the characters of the submitted field
Undefined == <<"u", "n", "d", "e", "f", "i", "n", "e", "d">>
Bodies == {<<"5">>, <<"1", "0">>, <<"-", "3">>, Undefined}

\* ------------------------------------------------------------ JS numbers
\* a JS number is NaN or an integer of the model
Int_(n) == [nan |-> FALSE, v |-> n]
NaN == [nan |-> TRUE, v |-> 0]

DigitChars == <<"0", "1", "2", "3", "4", "5", "6", "7", "8", "9",
                "a", "b", "c", "d", "e", "f">>
UpperDigitChars == <<"0", "1", "2", "3", "4", "5", "6", "7", "8", "9",
                     "A", "B", "C", "D", "E", "F">>

\* the value of character c as a digit, 99 when it is none
DigitVal(c) ==
  IF \E i \in 1..16 : DigitChars[i] = c
    THEN (CHOOSE i \in 1..16 : DigitChars[i] = c) - 1
    ELSE IF \E i \in 1..16 : UpperDigitChars[i] = c
      THEN (CHOOSE i \in 1..16 : UpperDigitChars[i] = c) - 1
      ELSE 99

RECURSIVE SkipWhite(_)
SkipWhite(s) ==
  IF s # <<>> /\ Head(s) = " " THEN SkipWhite(Tail(s)) ELSE s

\* length of the longest prefix of s made of digits of the radix
RECURSIVE DigitPrefixLen(_, _)
DigitPrefixLen(s, radix) ==
  IF s # <<>> /\ DigitVal(Head(s)) < radix
    THEN 1 + DigitPrefixLen(Tail(s), radix)
    ELSE 0

\* the number written by the digits ds, most significant first
RECURSIVE DigitsValue(_, _, _)
DigitsValue(ds, radix, acc) ==
  IF ds = <<>> THEN acc
  ELSE DigitsValue(Tail(ds), radix, acc * radix + DigitVal(Head(ds)))

\* parseInt(string) without a radix argument
ParseInt(body) ==
  LET s1 == SkipWhite(body)
      neg == s1 # <<>> /\ Head(s1) = "-"
      s2 == IF s1 # <<>> /\ Head(s1) \in {"-", "+"} THEN Tail(s1) ELSE s1
      hex == Len(s2) >= 2 /\ s2[1] = "0" /\ s2[2] \in {"x", "X"}
      radix == IF hex THEN 16 ELSE 10
      s3 == IF hex THEN Tail(Tail(s2)) ELSE s2
      n == DigitPrefixLen(s3, radix)
      mag == DigitsValue(SubSeq(s3, 1, n), radix, 0)
  IN IF n = 0 THEN NaN ELSE Int_(IF neg THEN 0 - mag ELSE mag)

\* a + b and Math.max(a, b) on JS numbers
JsAdd(a, b) == IF a.nan \/ b.nan THEN NaN ELSE Int_(a.v + b.v)
JsMax(a, b) ==
  IF a.nan \/ b.nan THEN NaN ELSE Int_(IF a.v >= b.v THEN a.v ELSE b.v)

\* ----------------------------------------------------------------- bcrypt
\* bcrypt.hash(plain, SaltRounds) with the salt it drew: the digest embeds the
\* cost and the salt, and is a one-way image of (salt, plain)
BcryptHash(plain, salt) ==
  [cost |-> SaltRounds, salt |-> salt, digest |-> <<salt, plain>>]

\* bcrypt.compare(plain, hash): hashes plain with the salt and cost embedded
\* in hash and compares the digests
BcryptCompare(plain, hash) ==
  [cost |-> hash.cost, salt |-> hash.salt, digest |-> <<hash.salt, plain>>] = hash

\* ------------------------------------------------------------------ state
VARIABLES
  users,       \* table users: rows [id, name, email, password], insertion order
  user_stats,  \* table user_stats: rows [user_id, games_played, total_clicks, best_score]
  session,     \* session store: session id -> serialized user id, 0 when none
  inflight,    \* bag of the handlers suspended on a query
  subs,        \* history: bag of the game-result submissions past the guard
  regs,        \* history: bag of the register submissions past the guard
  last         \* the response sent most recently

vars == <<users, user_stats, session, inflight, subs, regs, last>>

\* a handler's locals, before the route sets its own
Handler ==
  [route |-> "", sid |-> "", authed |-> FALSE, uid |-> 0, name |-> "", email |-> "",
   password |-> <<>>, hash |-> <<>>, score |-> NaN, rows |-> <<>>]

\* bag b with one copy of x added, removed, replaced by y
Put(b, x) == b (+) SetToBag({x})
Take(b, x) == b (-) SetToBag({x})
Swap(b, x, y) == Put(Take(b, x), y)

\* a response: kind is "redirect", "render" or "status"; flash is the flash
\* or view message shown with it; data is what a view is rendered with
Response(route, sid, authed, kind, arg, flash, data) ==
  [route |-> route, sid |-> sid, authed |-> authed, kind |-> kind,
   arg |-> arg, flash |-> flash, data |-> data]

NoResponse == Response("", "", FALSE, "none", "", "", <<>>)

Init ==
  /\ users = <<>>
  /\ user_stats = <<>>
  /\ session = [s \in Sessions |-> 0]
  /\ inflight = EmptyBag
  /\ subs = EmptyBag
  /\ regs = EmptyBag
  /\ last = NoResponse

\* ----------------------------------------------------------------- queries
\* SELECT * FROM users WHERE email = $1
SelectUserByEmail(email) == SelectSeq(users, LAMBDA u : u.email = email)

\* SELECT * FROM users WHERE id = $1
SelectUserById(id) == SelectSeq(users, LAMBDA u : u.id = id)

\* SelectStats without the WHERE clause
SelectStatsOfAnyone(uid) == user_stats

\* SELECT * FROM user_stats WHERE user_id = $1
SelectStats(uid) == SelectSeq(user_stats, LAMBDA r : r.user_id = uid)

\* users.email UNIQUE: the INSERT of a second row with the email is refused
EmailTaken(email) == \E i \in 1..Len(users) : users[i].email = email

\* user_stats.user_id UNIQUE: the INSERT of a second row of the user is refused
StatsTaken(uid) == \E i \in 1..Len(user_stats) : user_stats[i].user_id = uid

\* the counters are integer columns: NaN is no value of them
IntegerRejects(n) == n.nan

\* users.id is assigned by the table at creation
NextUserId == Len(users) + 1

\* ---------------------------------------------------------------- sessions
\* passport.session(): req.user is the row deserializeUser finds for the id
\* kept in the session, and nothing when the session keeps none
ReqUser(s) == IF session[s] = 0 THEN <<>> ELSE SelectUserById(session[s])

\* req.isAuthenticated()
IsAuthenticated(s) == ReqUser(s) # <<>>

\* SerializeUser that keeps the id of the first users row
SerializeUserFirst(user) == 1

\* passport.serializeUser: what the session keeps of the user
SerializeUser(user) == user.id

\* the handlers of the route that are suspended
Suspended(route) == {h \in BagToSet(inflight) : h.route = route}

\* room for one more suspended handler
Room == BagCardinality(inflight) < MaxInflight

\* ------------------------------------------------------------ auth guards
\* checkAuthenticated: TRUE when the request goes on to the handler
CheckAuthenticated(s) == IsAuthenticated(s)

\* ensureAuthenticated: TRUE when the request goes on to the handler
EnsureAuthenticated(s) == IsAuthenticated(s)

\* checkNotAuthenticated that lets every request through
CheckNotAuthenticatedOpen(s) == TRUE

\* checkNotAuthenticated: TRUE when the request goes on to the handler
CheckNotAuthenticated(s) == ~IsAuthenticated(s)

\* a guard's redirect: what the client gets when the guard stops the request
Redirected(route, s, authed, to) ==
  Response(route, s, authed, "redirect", to, "", <<>>)

\* -------------------------------------------------------- authenticateUser
\* !password
Falsy(password) == password = <<>> \/ password[1] = ""

\* done(null, user) and done(null, false, { message })
AuthOk(user) == [ok |-> TRUE, user |-> <<user>>, message |-> ""]
AuthFail(message) == [ok |-> FALSE, user |-> <<>>, message |-> message]

\* AuthenticateUser with the password checked before the user's existence
AuthenticateUserPasswordFirst(rows, password) ==
  IF Falsy(password) THEN AuthFail("Password is required")
  ELSE IF Len(rows) = 0 THEN AuthFail("No user with that email")
  ELSE IF rows[1].password = <<>> THEN AuthFail("User account corrupted")
  ELSE IF BcryptCompare(password[1], rows[1].password[1]) THEN AuthOk(rows[1])
  ELSE AuthFail("Password incorrect")

\* AuthenticateUser with the stored hash checked before the password
AuthenticateUserHashFirst(rows, password) ==
  IF Len(rows) = 0 THEN AuthFail("No user with that email")
  ELSE IF rows[1].password = <<>> THEN AuthFail("User account corrupted")
  ELSE IF Falsy(password) THEN AuthFail("Password is required")
  ELSE IF BcryptCompare(password[1], rows[1].password[1]) THEN AuthOk(rows[1])
  ELSE AuthFail("Password incorrect")

\* the calls of bcrypt.compare the verify callback makes: one, after the three
\* early returns
CompareCalls(rows, password) ==
  IF Len(rows) = 0 THEN <<>>
  ELSE IF Falsy(password) THEN <<>>
  ELSE IF rows[1].password = <<>> THEN <<>>
  ELSE <<[plain |-> password[1], hash |-> rows[1].password[1]]>>

\* the verify callback, on the rows its SELECT returned
AuthenticateUser(rows, password) ==
  IF Len(rows) = 0 THEN AuthFail("No user with that email")
  ELSE IF Falsy(password) THEN AuthFail("Password is required")
  ELSE IF rows[1].password = <<>> THEN AuthFail("User account corrupted")
  ELSE IF BcryptCompare(password[1], rows[1].password[1]) THEN AuthOk(rows[1])
  ELSE AuthFail("Password incorrect")

\* ------------------------------------------------------------ page routes
\* a route that only renders a view behind a guard
Page(route, s, pass, view, elseTo) ==
  /\ last' = IF pass
               THEN Response(route, s, IsAuthenticated(s), "render", view, "", <<>>)
               ELSE Redirected(route, s, IsAuthenticated(s), elseTo)
  /\ UNCHANGED <<users, user_stats, session, inflight, subs, regs>>

\* app.get('/')
GetIndex(s) == Page("GET /", s, CheckAuthenticated(s), "index.ejs", "/login")

\* app.get('/login')
GetLogin(s) == Page("GET /login", s, CheckNotAuthenticated(s), "login.ejs", "/")

\* app.get('/register')
GetRegister(s) ==
  Page("GET /register", s, CheckNotAuthenticated(s), "register.ejs", "/")

\* app.get('/game')
GetGame(s) == Page("GET /game", s, EnsureAuthenticated(s), "game", "/login")

\* -------------------------------------------------------------- POST /login
\* the request arrives: the guard, then the verify callback's SELECT
PostLogin(s, email, password) ==
  IF CheckNotAuthenticated(s)
    THEN /\ Room
         /\ inflight' = Put(inflight,
              [Handler EXCEPT !.route = "POST /login", !.sid = s,
                              !.authed = IsAuthenticated(s),
                              !.email = email, !.password = password,
                              !.rows = SelectUserByEmail(email)])
         /\ UNCHANGED <<users, user_stats, session, subs, regs, last>>
    ELSE /\ last' = Redirected("POST /login", s, IsAuthenticated(s), "/")
         /\ UNCHANGED <<users, user_stats, session, inflight, subs, regs>>

\* what passport.authenticate answers: successRedirect, or failureRedirect
\* with the verify callback's message flashed (failureFlash: true)
LoginResponse(h, auth) ==
  IF auth.ok
    THEN Response("POST /login", h.sid, h.authed, "redirect", "/", "", <<>>)
    ELSE Response("POST /login", h.sid, h.authed, "redirect", "/login",
                  auth.message, <<>>)

\* the session after passport.authenticate: req.logIn keeps the serialized
\* user on success, a failure leaves the session as it is
LoginSession(s, auth) ==
  IF auth.ok THEN [session EXCEPT ![s] = SerializeUser(auth.user[1])] ELSE session

\* the SELECT returned: the checks, bcrypt.compare, then the response
PostLoginDone(h) ==
  /\ h \in Suspended("POST /login")
  /\ LET auth == AuthenticateUser(h.rows, h.password)
     IN /\ session' = LoginSession(h.sid, auth)
        /\ last' = [LoginResponse(h, auth) EXCEPT
                      !.data = <<[email |-> h.email, password |-> h.password,
                                  rows |-> h.rows, auth |-> auth,
                                  calls |-> CompareCalls(h.rows, h.password)]>>]
  /\ inflight' = Take(inflight, h)
  /\ UNCHANGED <<users, user_stats, subs, regs>>

\* --------------------------------------------------------------- /logout
\* LogoutSession that leaves the session as it is
LogoutSessionKept(s) == session

\* req.logout: the session keeps no user afterwards
LogoutSession(s) == [session EXCEPT ![s] = 0]

\* LogoutResponse that passes an error on when the session has no user
LogoutResponseErrors(s) ==
  IF IsAuthenticated(s)
    THEN Response("DELETE /logout", s, TRUE, "redirect", "/login", "", <<>>)
    ELSE Response("DELETE /logout", s, FALSE, "status", "500", "", <<>>)

\* the callback of req.logout: res.redirect('/login')
LogoutResponse(s) ==
  Response("DELETE /logout", s, IsAuthenticated(s), "redirect", "/login", "", <<>>)

\* app.delete('/logout'): no guard
DeleteLogout(s) ==
  /\ session' = LogoutSession(s)
  /\ last' = LogoutResponse(s)
  /\ UNCHANGED <<users, user_stats, inflight, subs, regs>>

\* ----------------------------------------------------------- POST /register
\* the request arrives: the guard, then bcrypt.hash draws a salt
PostRegister(s, name, email, password) ==
  IF CheckNotAuthenticated(s)
    THEN /\ BagCardinality(regs) < MaxRegs
         /\ Room
         /\ \E salt \in Salts :
              inflight' = Put(inflight,
                [Handler EXCEPT !.route = "POST /register", !.sid = s,
                                !.authed = IsAuthenticated(s),
                                !.name = name, !.email = email,
                                !.password = password,
                                !.hash = <<BcryptHash(password[1], salt)>>])
         /\ regs' = Put(regs, [email |-> email, password |-> password,
                               status |-> "pending"])
         /\ UNCHANGED <<users, user_stats, session, subs, last>>
    ELSE /\ last' = Redirected("POST /register", s, IsAuthenticated(s), "/")
         /\ UNCHANGED <<users, user_stats, session, inflight, subs, regs>>

\* RegisterResponse without the catch: the redirect whatever the INSERT did
RegisterResponseNoCatch(h, threw) ==
  Response("POST /register", h.sid, h.authed, "redirect", "/login", "", <<>>)

\* try { INSERT ...; res.redirect('/login') } catch { res.render('register', ...) }
RegisterResponse(h, threw) ==
  IF threw
    THEN Response("POST /register", h.sid, h.authed, "render", "register",
                  "Registration failed. Email may already be in use.",
                  <<[name |-> h.name, email |-> h.email]>>)
    ELSE Response("POST /register", h.sid, h.authed, "redirect", "/login", "", <<>>)

\* INSERT INTO users (name, email, password) VALUES ($1, $2, $3)
InsertUser(h) ==
  Append(users, [id |-> NextUserId, name |-> h.name, email |-> h.email,
                 password |-> h.hash])

\* the hash is ready: the INSERT runs, then the response
PostRegisterInsert(h) ==
  /\ h \in Suspended("POST /register")
  /\ LET threw == EmailTaken(h.email)
         mine == [email |-> h.email, password |-> h.password, status |-> "pending"]
     IN /\ users' = IF threw THEN users ELSE InsertUser(h)
        /\ last' = RegisterResponse(h, threw)
        /\ regs' = Swap(regs, mine,
              [mine EXCEPT !.status =
                 IF last'.kind = "redirect" THEN "ok" ELSE "failed"])
  /\ inflight' = Take(inflight, h)
  /\ UNCHANGED <<user_stats, session, subs>>

\* -------------------------------------------------------- POST /game/result
\* the submissions of user uid that are still being handled
Pending(uid) ==
  {x \in BagToSet(subs) : x.uid = uid /\ x.status = "pending"}

\* the history once a submission of user uid arrives: the ones it overlaps
\* are marked, and it is marked when it overlaps one
Arrived(uid, score) ==
  LET Mark(x) == IF x \in Pending(uid) THEN [x EXCEPT !.overlap = TRUE] ELSE x
  IN Put(BagOfAll(Mark, subs),
         [uid |-> uid, score |-> score, status |-> "pending",
          overlap |-> Pending(uid) # {}])

\* the request arrives: the guard, parseInt of the body's score, then the
\* SELECT of the user's stats row
PostGameResult(s, body) ==
  IF EnsureAuthenticated(s)
    THEN /\ BagCardinality(subs) < MaxSubs
         /\ Room
         /\ LET uid == ReqUser(s)[1].id
                score == ParseInt(body)
            IN /\ inflight' = Put(inflight,
                    [Handler EXCEPT !.route = "POST /game/result", !.sid = s,
                                    !.authed = IsAuthenticated(s),
                                    !.uid = uid, !.score = score,
                                    !.rows = SelectStats(uid)])
               /\ subs' = Arrived(uid, score)
         /\ UNCHANGED <<users, user_stats, session, regs, last>>
    ELSE /\ last' = Redirected("POST /game/result", s, IsAuthenticated(s), "/login")
         /\ UNCHANGED <<users, user_stats, session, inflight, subs, regs>>

\* VALUES ($1, 1, $2, $3) with [userId, score, score]
NewStats(uid, score) ==
  [user_id |-> uid, games_played |-> Int_(1), total_clicks |-> score,
   best_score |-> score]

\* UpdatedStats with the new score stored as the best one, whatever the row's
\* best score was
UpdatedStatsNoMax(current, score) ==
  [user_id |-> current.user_id,
   games_played |-> JsAdd(Int_(current.games_played), Int_(1)),
   total_clicks |-> JsAdd(Int_(current.total_clicks), score),
   best_score |-> score]

\* newGamesPlayed, newTotalClicks, newBestScore from the row that was read
UpdatedStats(current, score) ==
  [user_id |-> current.user_id,
   games_played |-> JsAdd(Int_(current.games_played), Int_(1)),
   total_clicks |-> JsAdd(Int_(current.total_clicks), score),
   best_score |-> JsMax(Int_(current.best_score), score)]

\* the values a statement carries, and whether the integer columns refuse them
Refused(w) ==
  \/ IntegerRejects(w.games_played)
  \/ IntegerRejects(w.total_clicks)
  \/ IntegerRejects(w.best_score)

\* the row that stores the values w
StatsRow(w) ==
  [user_id |-> w.user_id, games_played |-> w.games_played.v,
   total_clicks |-> w.total_clicks.v, best_score |-> w.best_score.v]

\* InsertStats into a table that takes a second row of the same user
InsertStatsAgain(w) ==
  IF Refused(w)
    THEN <<TRUE, user_stats>>
    ELSE <<FALSE, Append(user_stats, StatsRow(w))>>

\* INSERT INTO user_stats ... : <<threw, table afterwards>>
InsertStats(w) ==
  IF StatsTaken(w.user_id) \/ Refused(w)
    THEN <<TRUE, user_stats>>
    ELSE <<FALSE, Append(user_stats, StatsRow(w))>>

\* UpdateStats without the WHERE clause: every row gets the counters
UpdateStatsEveryRow(w) ==
  IF Refused(w)
    THEN <<TRUE, user_stats>>
    ELSE <<FALSE, [i \in 1..Len(user_stats) |->
                     [StatsRow(w) EXCEPT !.user_id = user_stats[i].user_id]]>>

\* UPDATE user_stats SET ... WHERE user_id = $4 : <<threw, table afterwards>>
UpdateStats(w) ==
  IF Refused(w)
    THEN <<TRUE, user_stats>>
    ELSE <<FALSE, [i \in 1..Len(user_stats) |->
                     IF user_stats[i].user_id = w.user_id
                       THEN StatsRow(w) ELSE user_stats[i]]>>

\* ResultStatus of a handler whose catch block answers like the try block
ResultStatusSwallowed(threw) == "200"

\* res.sendStatus(200), or res.sendStatus(500) from the catch
ResultStatus(threw) == IF threw THEN "500" ELSE "200"

\* the SELECT returned: the INSERT or the UPDATE runs, then the response
PostGameResultWrite(h) ==
  /\ h \in Suspended("POST /game/result")
  /\ LET mine == CHOOSE x \in Pending(h.uid) : x.score = h.score
         done == IF Len(h.rows) = 0
                   THEN InsertStats(NewStats(h.uid, h.score))
                   ELSE UpdateStats(UpdatedStats(h.rows[1], h.score))
     IN /\ user_stats' = done[2]
        /\ last' = Response("POST /game/result", h.sid, h.authed, "status",
                            ResultStatus(done[1]), "", <<>>)
        /\ subs' = Swap(subs, mine, [mine EXCEPT !.status = ResultStatus(done[1])])
  /\ inflight' = Take(inflight, h)
  /\ UNCHANGED <<users, session, regs>>

\* ------------------------------------------------------------- /dashboard
\* the decimal digits of a natural number
RECURSIVE NatToChars(_)
NatToChars(n) ==
  IF n < 10 THEN <<DigitChars[n + 1]>>
  ELSE NatToChars(n \div 10) \o <<DigitChars[(n % 10) + 1]>>

\* (total / games).toFixed(2), games > 0: the quotient rounded to hundredths,
\* a tie away from zero, written with its sign and two decimals
ToFixed2(total, games) ==
  LET a == IF total < 0 THEN 0 - total ELSE total
      n == (a * 200 + games) \div (2 * games)
      frac == n % 100
  IN (IF total < 0 THEN <<"-">> ELSE <<>>)
       \o NatToChars(n \div 100) \o <<".">>
       \o <<DigitChars[(frac \div 10) + 1], DigitChars[(frac % 10) + 1]>>

\* stats.games_played ? (stats.total_clicks / stats.games_played).toFixed(2) : 0
AverageClicks(stats) ==
  IF stats.games_played # 0
    THEN [fixed |-> TRUE, text |-> ToFixed2(stats.total_clicks, stats.games_played)]
    ELSE [fixed |-> FALSE, text |-> <<"0">>]

\* result.rows[0] || { games_played: 0, total_clicks: 0, best_score: 0 }
StatsOrDefault(rows) ==
  IF Len(rows) > 0 THEN rows[1]
  ELSE [user_id |-> 0, games_played |-> 0, total_clicks |-> 0, best_score |-> 0]

\* the userStats object the dashboard view is rendered with
DashboardView(user, rows) ==
  LET stats == StatsOrDefault(rows)
  IN [name |-> user.name, gamesPlayed |-> stats.games_played,
      bestScore |-> stats.best_score, averageClicks |-> AverageClicks(stats)]

\* app.get('/dashboard')
GetDashboard(s) ==
  /\ last' = IF EnsureAuthenticated(s)
               THEN Response("GET /dashboard", s, IsAuthenticated(s), "render",
                      "dashboard", "",
                      <<DashboardView(ReqUser(s)[1], SelectStats(ReqUser(s)[1].id))>>)
               ELSE Redirected("GET /dashboard", s, IsAuthenticated(s), "/login")
  /\ UNCHANGED <<users, user_stats, session, inflight, subs, regs>>

\* ----------------------------------------------------------- /leaderboard
\* users u JOIN user_stats us ON u.id = us.user_id, as (name, best_score)
JoinRows ==
  LET owned == SelectSeq(user_stats, LAMBDA r : SelectUserById(r.user_id) # <<>>)
  IN [i \in 1..Len(owned) |->
        [name |-> SelectUserById(owned[i].user_id)[1].name,
         bestScore |-> owned[i].best_score]]

\* DescOrders with the sort ascending
AscOrders(rows) ==
  {p \in [1..Len(rows) -> 1..Len(rows)] :
     /\ \A i, j \in 1..Len(rows) : i # j => p[i] # p[j]
     /\ \A i, j \in 1..Len(rows) :
          i < j => rows[p[i]].bestScore <= rows[p[j]].bestScore}

\* the orders ORDER BY best_score DESC may return the rows in: the order of
\* rows with equal best_score is the engine's choice
DescOrders(rows) ==
  {p \in [1..Len(rows) -> 1..Len(rows)] :
     /\ \A i, j \in 1..Len(rows) : i # j => p[i] # p[j]
     /\ \A i, j \in 1..Len(rows) :
          i < j => rows[p[i]].bestScore >= rows[p[j]].bestScore}

\* LIMIT 3 of the rows in order p
TopUsers(rows, p) ==
  [i \in 1..(IF Len(rows) < LeaderboardLimit THEN Len(rows) ELSE LeaderboardLimit)
     |-> rows[p[i]]]

\* app.get('/leaderboard')
GetLeaderboard(s) ==
  /\ IF EnsureAuthenticated(s)
       THEN \E p \in DescOrders(JoinRows) :
              last' = Response("GET /leaderboard", s, IsAuthenticated(s), "render",
                               "leaderboard", "", TopUsers(JoinRows, p))
       ELSE last' = Redirected("GET /leaderboard", s, IsAuthenticated(s), "/login")
  /\ UNCHANGED <<users, user_stats, session, inflight, subs, regs>>

\* ------------------------------------------------------------ specification
\* the requests whose inputs are drawn from the given sets: sessions SS,
\* emails EE, register passwords RP, login passwords LP, score fields BB
NextOn(SS, EE, RP, LP, BB) ==
  \/ \E s \in SS : GetIndex(s)
  \/ \E s \in SS : GetLogin(s)
  \/ \E s \in SS : GetRegister(s)
  \/ \E s \in SS : GetGame(s)
  \/ \E s \in SS, e \in EE, p \in LP : PostLogin(s, e, p)
  \/ \E h \in BagToSet(inflight) : PostLoginDone(h)
  \/ \E s \in SS, n \in Names, e \in EE, p \in RP : PostRegister(s, n, e, p)
  \/ \E h \in BagToSet(inflight) : PostRegisterInsert(h)
  \/ \E s \in SS : DeleteLogout(s)
  \/ \E s \in SS, b \in BB : PostGameResult(s, b)
  \/ \E h \in BagToSet(inflight) : PostGameResultWrite(h)
  \/ \E s \in SS : GetDashboard(s)
  \/ \E s \in SS : GetLeaderboard(s)

\* every request of the input sets
Next == NextOn(Sessions, Emails, RegisterPasswords, LoginPasswords, Bodies)

Spec == Init /\ [][Next]_vars

\* one player in one browser session: register, log in and out, and submit
\* any score field
NextGame ==
  \/ PostLogin("s1", "a@x.com", <<"pw123">>)
  \/ \E h \in BagToSet(inflight) : PostLoginDone(h)
  \/ \E n \in Names : PostRegister("s1", n, "a@x.com", <<"pw123">>)
  \/ \E h \in BagToSet(inflight) : PostRegisterInsert(h)
  \/ DeleteLogout("s1")
  \/ \E b \in Bodies : PostGameResult("s1", b)
  \/ \E h \in BagToSet(inflight) : PostGameResultWrite(h)

SpecGame == Init /\ [][NextGame]_vars

\* registration and login with every credential, in one browser session
NextAuth ==
  \/ \E e \in Emails, p \in LoginPasswords : PostLogin("s1", e, p)
  \/ \E h \in BagToSet(inflight) : PostLoginDone(h)
  \/ \E n \in Names, e \in Emails, p \in RegisterPasswords :
       PostRegister("s1", n, e, p)
  \/ \E h \in BagToSet(inflight) : PostRegisterInsert(h)
  \/ DeleteLogout("s1")

SpecAuth == Init /\ [][NextAuth]_vars

\* every route, in one browser session, with one password to register and a
\* right and a wrong one to log in, and one score field
NextGuard ==
  NextOn({"s1"}, {"a@x.com"}, {<<"pw123">>}, {<<"pw123">>, <<"bad">>}, {<<"5">>})

SpecGuard == Init /\ [][NextGuard]_vars

\* ------------------------------------------------- the submission history
UserIds == {users[i].id : i \in 1..Len(users)}

\* the sum of F(x) over the copies of the records S of the history
RECURSIVE SumOver(_, _)
SumOver(F(_), S) ==
  IF S = {} THEN 0
  ELSE LET x == CHOOSE y \in S : TRUE
       IN CopiesIn(x, subs) * F(x) + SumOver(F, S \ {x})

One(x) == 1
ScoreOf(x) == x.score.v

\* the submissions of user u whose score parseInt read as an integer, and the
\* ones among them that were answered 200
Scored(u) == {x \in BagToSet(subs) : x.uid = u /\ ~x.score.nan}
Acked(u) == {x \in Scored(u) : x.status = "200"}

\* the largest score among the submissions S
MaxScore(S) == CHOOSE m \in {x.score.v : x \in S} : \A x \in S : x.score.v <= m

\* the stats row that counts exactly the submissions S
Counted(u, S) ==
  [user_id |-> u, games_played |-> SumOver(One, S),
   total_clicks |-> SumOver(ScoreOf, S), best_score |-> MaxScore(S)]

\* user u's submissions so far ran one after another, and none is running
Sequential(u) ==
  /\ Pending(u) = {}
  /\ \A x \in BagToSet(subs) : x.uid = u => ~x.overlap

\* C1: two simultaneous submissions of user u with scores 5 and 10, starting
\* from no games played, leave gamesPlayed=2, totalClicks=15, bestScore=10,
\* whatever the interleaving of their SELECT and INSERT/UPDATE steps
C1_TwoSubmissions ==
  \A u \in UserIds :
    ( /\ Pending(u) = {}
      /\ {x.score : x \in {y \in BagToSet(subs) : y.uid = u}} = {Int_(5), Int_(10)}
      /\ SumOver(One, {y \in BagToSet(subs) : y.uid = u}) = 2 )
    => SelectStats(u) = <<[user_id |-> u, games_played |-> 2,
                           total_clicks |-> 15, best_score |-> 10]>>

\* C2: after k submissions of integer scores s1..sk by user u, run one after
\* another, u's row has gamesPlayed = k, totalClicks = s1+...+sk and
\* bestScore = max(s1..sk); the first one creates the row (1, score, score),
\* and before the first one there is no row
C2_SequentialTotals ==
  \A u \in UserIds :
    Sequential(u) =>
      IF Scored(u) = {} THEN SelectStats(u) = <<>>
      ELSE SelectStats(u) = <<Counted(u, Scored(u))>>

\* three submissions of one user, one after another, counted in the row
C2_Witness ==
  \E u \in UserIds :
    /\ Sequential(u)
    /\ SumOver(One, Scored(u)) = 3
    /\ {x.score.v : x \in Scored(u)} = {5, 10, 0 - 3}
    /\ SelectStats(u) = <<[user_id |-> u, games_played |-> 3,
                           total_clicks |-> 12, best_score |-> 10]>>

\* every score submitted so far, in history h, is a non-negative integer
ValidScores(h) == \A x \in BagToSet(h) : ~x.score.nan /\ x.score.v >= 0

\* C3: no acknowledged submission is lost: once none of user u's submissions
\* (all of non-negative integer scores) is running, the row counts every
\* submission that was answered 200
C3_NoLostUpdate ==
  \A u \in UserIds :
    (ValidScores(subs) /\ Pending(u) = {} /\ Acked(u) # {}) =>
      /\ Len(SelectStats(u)) = 1
      /\ SelectStats(u)[1].games_played = SumOver(One, Acked(u))
      /\ SelectStats(u)[1].total_clicks = SumOver(ScoreOf, Acked(u))

\* C4: no step changes the bestScore of an existing stats row to a smaller
\* value, the submitted scores being non-negative integers
C4_BestScoreMonotonic ==
  [][\A i \in 1..Len(user_stats) :
       ValidScores(subs') =>
       /\ Len(user_stats') >= i
       /\ user_stats'[i].user_id = user_stats[i].user_id
       /\ user_stats'[i].best_score >= user_stats[i].best_score]_vars

\* ----------------------------------------------- the registration history
\* the number of copies of the records S in bag b
RECURSIVE CopiesOf(_, _)
CopiesOf(b, S) ==
  IF S = {} THEN 0
  ELSE LET x == CHOOSE y \in S : TRUE
       IN CopiesIn(x, b) + CopiesOf(b, S \ {x})

\* the register submissions with email e whose outcome is st
RegCount(e, st) ==
  CopiesOf(regs, {x \in BagToSet(regs) : x.email = e /\ x.status = st})

\* the users whose email is e
UsersWith(e) == {i \in 1..Len(users) : users[i].email = e}

\* C5: of the register calls carrying one email, run one after another or
\* together, exactly one succeeds and creates a User, every other one fails
\* with the email in use and creates nothing; at most one User per email
C5_OneUserPerEmail ==
  \A e \in Emails :
    /\ Cardinality(UsersWith(e)) <= 1
    /\ Cardinality(UsersWith(e)) = RegCount(e, "ok")
    /\ RegCount(e, "failed") > 0 => EmailTaken(e)
    /\ (RegCount(e, "pending") = 0 /\ RegCount(e, "failed") + RegCount(e, "ok") > 0)
         => RegCount(e, "ok") = 1
    /\ (last.route = "POST /register" /\ last.kind = "render") =>
         /\ last.flash = "Registration failed. Email may already be in use."
         /\ EmailTaken(last.data[1].email)

\* two register calls with one email are over: one made the User, one failed
C5_Witness ==
  \E e \in Emails :
    /\ RegCount(e, "ok") = 1
    /\ RegCount(e, "failed") = 1
    /\ RegCount(e, "pending") = 0
    /\ Cardinality(UsersWith(e)) = 1

\* ------------------------------------------------------- the login answers
\* the last response is the answer of the verify callback to a login
LoginAnswered == last.route = "POST /login" /\ last.data # <<>>

\* the password the User with email e registered with
Registered(e) ==
  (CHOOSE x \in BagToSet(regs) : x.email = e /\ x.status = "ok").password

\* C6: for a registered user U, authenticate(U.email, p) succeeds and returns
\* U when p is the password U registered with, and fails with WrongPassword
\* when p is a non-empty password that does not verify against U's hash
C6_CorrectPasswordLogsIn ==
  (LoginAnswered /\ last.data[1].rows # <<>>) =>
    LET d == last.data[1]
        u == d.rows[1]
    IN /\ d.password = Registered(u.email) =>
            (d.auth.ok /\ d.auth.user = <<u>> /\ last.arg = "/")
       /\ (~Falsy(d.password) /\ ~BcryptCompare(d.password[1], u.password[1])) =>
            (~d.auth.ok /\ d.auth.message = "Password incorrect")

\* C7: for an email with no User, authenticate fails with NoSuchUser for
\* every password, the empty and the absent one included
C7_NoSuchUser ==
  LoginAnswered =>
    LET d == last.data[1]
    IN (d.rows = <<>> \/ ~EmailTaken(d.email)) =>
         /\ ~d.auth.ok
         /\ d.auth.message = "No user with that email"
         /\ last.kind = "redirect" /\ last.arg = "/login"

\* a login with an empty password for an email nobody registered, while
\* another email is registered
C7_Witness ==
  /\ LoginAnswered
  /\ last.data[1].rows = <<>>
  /\ last.data[1].password = <<"">>
  /\ ~EmailTaken(last.data[1].email)
  /\ users # <<>>

\* C9: a failed login for a registered email with a wrong password is answered
\* as a failed login for an unregistered email is: same redirect target, same
\* flash message
C9_GenericFailure ==
  (LoginAnswered /\ last.data[1].auth.message = "Password incorrect") =>
    \A e \in Emails :
      ~EmailTaken(e) =>
        LET other == LoginResponse([Handler EXCEPT !.sid = last.sid],
                       AuthenticateUser(SelectUserByEmail(e), last.data[1].password))
        IN other.kind = last.kind /\ other.arg = last.arg /\ other.flash = last.flash

\* --------------------------------------------------------- the route guard
\* the routes behind checkAuthenticated / ensureAuthenticated, and the ones
\* behind checkNotAuthenticated
ProtectedRoutes ==
  {"GET /", "GET /game", "POST /game/result", "GET /dashboard", "GET /leaderboard"}
AuthOnlyRoutes == {"GET /login", "POST /login", "GET /register", "POST /register"}

\* a response was sent in this step (the same response sent again to the same
\* request leaves the state as it is)
Answered == last' # last

\* C8: a request with no resolvable session to a protected route is
\* redirected to /login and reaches no handler: no table, session, suspended
\* handler or history changes; a request with a resolvable session to an
\* authentication-only route is redirected to / and creates no User and no
\* session
C8_RouteGuard ==
  [][Answered =>
       /\ (last'.route \in ProtectedRoutes /\ ~last'.authed) =>
            /\ last'.kind = "redirect" /\ last'.arg = "/login"
            /\ UNCHANGED <<users, user_stats, session, inflight, subs, regs>>
       /\ (last'.route \in AuthOnlyRoutes /\ last'.authed) =>
            /\ last'.kind = "redirect" /\ last'.arg = "/"
            /\ UNCHANGED <<users, user_stats, session, inflight, subs, regs>>]_vars

\* a submission on a logged-out session was turned away while a stats row
\* exists
C8_Witness ==
  /\ last.route = "POST /game/result"
  /\ ~last.authed
  /\ last.kind = "redirect"
  /\ user_stats # <<>>
  /\ session[last.sid] = 0

\* C10: a logout leaves its session resolving to no user and leaves the User
\* and UserStats rows as they are; a session that resolves to no user does so
\* until a login on it succeeds, and every protected request on it meanwhile
\* is redirected to /login
C10_LogoutUnbinds ==
  [][\A s \in Sessions :
       /\ (Answered /\ last'.route = "DELETE /logout" /\ last'.sid = s) =>
            /\ session'[s] = 0
            /\ ReqUser(s)' = <<>>
            /\ UNCHANGED <<users, user_stats>>
       /\ (ReqUser(s) = <<>> /\ ReqUser(s)' # <<>>) =>
            /\ last'.route = "POST /login" /\ last'.sid = s
            /\ last'.kind = "redirect" /\ last'.arg = "/"
            /\ last'.data[1].auth.ok
            /\ ReqUser(s)' = last'.data[1].auth.user
       /\ (ReqUser(s) = <<>> /\ Answered /\ last'.sid = s /\ ~last'.authed
             /\ last'.route \in ProtectedRoutes) =>
            last' = Redirected(last'.route, s, FALSE, "/login")]_vars

\* a session that was logged in, with games played, answered its logout
C10_Witness ==
  /\ last.route = "DELETE /logout"
  /\ last.authed
  /\ session[last.sid] = 0
  /\ user_stats # <<>>

\* C11: logging out a session that has no user is no error: it is answered
\* with the redirect to /login, as the first logout was, and leaves the
\* tables, the sessions, the suspended handlers and the histories as they are
C11_LogoutIdempotent ==
  [][\A s \in Sessions :
       (Answered /\ last'.route = "DELETE /logout" /\ last'.sid = s
          /\ session[s] = 0) =>
         /\ last'.kind = "redirect" /\ last'.arg = "/login" /\ last'.flash = ""
         /\ ~last'.authed
         /\ UNCHANGED <<users, user_stats, session, inflight, subs, regs>>]_vars

\* a logout answered on a session that had already been logged out: it has
\* no user, though its user played games
C11_Witness ==
  /\ last.route = "DELETE /logout"
  /\ ~last.authed
  /\ last.kind = "redirect"
  /\ session[last.sid] = 0
  /\ user_stats # <<>>

\* ---------------------------------------------------------- the leaderboard
\* the accounts of a populated database, in the order they registered, and
\* the best scores their owners may have
BoardAccounts ==
  <<[name |-> "u1", email |-> "u1@x.com"], [name |-> "u2", email |-> "u2@x.com"],
    [name |-> "u3", email |-> "u3@x.com"], [name |-> "u4", email |-> "u4@x.com"]>>
BoardScores == {10, 20, 30, 50}

\* the database after the first n accounts registered with "pw123" and the
\* users in played each submitted one game, in any order, the first user
\* being logged in on session s1
InitBoard ==
  \E n \in 0..Len(BoardAccounts) :
    \E played \in SUBSET (1..n) :
      \E order \in [1..Cardinality(played) -> played], score \in [played -> BoardScores] :
        /\ \A i, j \in 1..Cardinality(played) : i # j => order[i] # order[j]
        /\ users = [i \in 1..n |->
             [id |-> i, name |-> BoardAccounts[i].name,
              email |-> BoardAccounts[i].email,
              password |-> <<BcryptHash("pw123", 1)>>]]
        /\ user_stats = [k \in 1..Cardinality(played) |->
             [user_id |-> order[k], games_played |-> 1,
              total_clicks |-> score[order[k]], best_score |-> score[order[k]]]]
        /\ session = [s \in Sessions |-> IF s = "s1" /\ n >= 1 THEN 1 ELSE 0]
        /\ inflight = EmptyBag
        /\ subs = SetToBag({[uid |-> u, score |-> Int_(score[u]), status |-> "200",
                             overlap |-> FALSE] : u \in played})
        /\ regs = SetToBag({[email |-> BoardAccounts[i].email,
                             password |-> <<"pw123">>, status |-> "ok"] : i \in 1..n})
        /\ last = NoResponse

\* the leaderboard is asked for, and the session logs out
NextBoard ==
  \/ GetLeaderboard("s1")
  \/ DeleteLogout("s1")

SpecBoard == InitBoard /\ [][NextBoard]_vars

\* the (name, bestScore) pairs of the users that have a stats row, each as
\* many times as there are rows with it
Standings ==
  LET NameOf(u) == users[CHOOSE i \in 1..Len(users) : users[i].id = u].name
      Pair(k) == [name |-> NameOf(user_stats[k].user_id),
                  bestScore |-> user_stats[k].best_score]
      Hits(e) == Cardinality({k \in 1..Len(user_stats) : Pair(k) = e})
  IN [e \in {Pair(k) : k \in 1..Len(user_stats)} |-> Hits(e)]

\* the entries of a view, each as many times as the view lists it
Listed(view) ==
  [e \in {view[i] : i \in 1..Len(view)} |->
     Cardinality({i \in 1..Len(view) : view[i] = e})]

\* the best scores are those of u1, u2, u3, u4 in the example
ExampleScores ==
  /\ Len(users) = 4
  /\ Len(user_stats) = 4
  /\ \A k \in 1..4 :
       user_stats[k].best_score = <<30, 10, 50, 20>>[user_stats[k].user_id]

\* C12: the leaderboard lists at most three (name, bestScore) entries, all of
\* users that have a stats row, in non-increasing bestScore, as many as there
\* are rows up to three (none when there is no row), every user left out
\* having a bestScore no larger than any listed one; asking for it changes no
\* table and no session; for the best scores 30, 10, 50, 20 of u1..u4 it is
\* (u3, 50), (u1, 30), (u4, 20)
C12_Leaderboard ==
  [][(Answered /\ last'.route = "GET /leaderboard") =>
       /\ UNCHANGED <<users, user_stats, session, inflight, subs, regs>>
       /\ last'.kind = "render" =>
            LET view == last'.data
            IN /\ Len(view) <= 3
               /\ Len(view) = (IF Len(user_stats) < 3 THEN Len(user_stats) ELSE 3)
               /\ \A i, j \in 1..Len(view) :
                    i < j => view[i].bestScore >= view[j].bestScore
               /\ Listed(view) \sqsubseteq Standings
               /\ \A out \in BagToSet(Standings (-) Listed(view)) :
                    \A i \in 1..Len(view) : out.bestScore <= view[i].bestScore
               /\ ExampleScores =>
                    view = <<[name |-> "u3", bestScore |-> 50],
                             [name |-> "u1", bestScore |-> 30],
                             [name |-> "u4", bestScore |-> 20]>>]_vars

\* the leaderboard of the example was rendered
C12_Witness ==
  /\ last.route = "GET /leaderboard"
  /\ last.kind = "render"
  /\ ExampleScores
  /\ Len(last.data) = 3
  /\ last.data[1].name = "u3"

\* ------------------------------------------------------- storage failures
\* pool.query rejects the SELECT of a submission (the connection is lost, the
\* server is down): query rethrows, the catch block answers, nothing ran
PostGameResultSelectFails(s, body) ==
  /\ EnsureAuthenticated(s)
  /\ BagCardinality(subs) < MaxSubs
  /\ last' = Response("POST /game/result", s, IsAuthenticated(s), "status",
                      ResultStatus(TRUE), "", <<>>)
  /\ subs' = Put(subs, [uid |-> ReqUser(s)[1].id, score |-> ParseInt(body),
                        status |-> ResultStatus(TRUE), overlap |-> FALSE])
  /\ UNCHANGED <<users, user_stats, session, inflight, regs>>

\* pool.query rejects the INSERT or UPDATE of a submission: a statement that
\* fails stores nothing, query rethrows, the catch block answers
PostGameResultWriteFails(h) ==
  /\ h \in Suspended("POST /game/result")
  /\ LET mine == CHOOSE x \in Pending(h.uid) : x.score = h.score
     IN /\ last' = Response("POST /game/result", h.sid, h.authed, "status",
                            ResultStatus(TRUE), "", <<>>)
        /\ subs' = Swap(subs, mine, [mine EXCEPT !.status = ResultStatus(TRUE)])
  /\ inflight' = Take(inflight, h)
  /\ UNCHANGED <<users, user_stats, session, regs>>

\* one player submitting scores to a database whose statements may fail
NextFault ==
  \/ PostLogin("s1", "a@x.com", <<"pw123">>)
  \/ \E h \in BagToSet(inflight) : PostLoginDone(h)
  \/ \E n \in Names : PostRegister("s1", n, "a@x.com", <<"pw123">>)
  \/ \E h \in BagToSet(inflight) : PostRegisterInsert(h)
  \/ DeleteLogout("s1")
  \/ \E b \in {<<"5">>, <<"1", "0">>, Undefined} : PostGameResult("s1", b)
  \/ \E h \in BagToSet(inflight) : PostGameResultWrite(h)
  \/ \E b \in {<<"5">>, <<"1", "0">>, Undefined} : PostGameResultSelectFails("s1", b)
  \/ \E h \in BagToSet(inflight) : PostGameResultWriteFails(h)

SpecFault == Init /\ [][NextFault]_vars

\* the stats rows of user u
RowsOf(table, u) ==
  {table[k] : k \in {i \in 1..Len(table) : table[i].user_id = u}}

\* the three counters of row r are those a submission of score n writes after
\* reading rows
WrittenTogether(r, rows, n) ==
  IF Len(rows) = 0
    THEN r.games_played = 1 /\ r.total_clicks = n /\ r.best_score = n
    ELSE /\ r.games_played = rows[1].games_played + 1
         /\ r.total_clicks = rows[1].total_clicks + n
         /\ r.best_score = (IF rows[1].best_score > n THEN rows[1].best_score ELSE n)

\* C13: a submission writes nothing in part and hides no failure: its first
\* step writes nothing; the step that ends a handler of the route answers 200
\* or 500; with 500 the table of stats rows is what it was before the step,
\* with 200 the user's row holds, after this one step, the three counters
\* computed from the row that was read; a request whose SELECT fails is
\* answered 500 with the table untouched; the table changes in no other step
C13_NoPartialWrite ==
  [][/\ \A h \in Suspended("POST /game/result") :
          inflight' = Take(inflight, h) =>
            /\ last'.route = "POST /game/result" /\ last'.kind = "status"
            /\ last'.arg \in {"200", "500"}
            /\ last'.arg = "500" => user_stats' = user_stats
            /\ last'.arg = "200" =>
                 /\ ~h.score.nan
                 /\ \A r \in RowsOf(user_stats', h.uid) :
                      WrittenTogether(r, h.rows, h.score.v)
                 /\ RowsOf(user_stats', h.uid) # {}
     /\ (Answered /\ last'.route = "POST /game/result" /\ last'.arg = "500") =>
          user_stats' = user_stats
     /\ user_stats' # user_stats =>
          /\ last'.route = "POST /game/result" /\ last'.arg = "200"
          /\ \E h \in Suspended("POST /game/result") : inflight' = Take(inflight, h)]_vars

\* a submission of a valid score was answered 500 after a statement failed,
\* next to a stats row that an earlier submission wrote
C13_Witness ==
  /\ last.route = "POST /game/result"
  /\ last.arg = "500"
  /\ \E x \in BagToSet(subs) : x.status = "500" /\ ~x.score.nan /\ x.score.v >= 0
  /\ \E x \in BagToSet(subs) : x.status = "200"
  /\ user_stats # <<>>

\* C14: every stats row has non-negative integer games_played, total_clicks
\* and best_score, whatever score field the requests carried
C14_NonNegativeCounters ==
  \A k \in 1..Len(user_stats) :
    /\ user_stats[k].games_played \in Nat
    /\ user_stats[k].total_clicks \in Nat
    /\ user_stats[k].best_score \in Nat

\* ------------------------------------------------------------ the dashboard
\* the database after both emails registered with "pw123", nobody logged in
InitDash ==
  /\ users = [i \in 1..2 |->
       [id |-> i, name |-> "Alice", email |-> <<"a@x.com", "b@x.com">>[i],
        password |-> <<BcryptHash("pw123", 1)>>]]
  /\ user_stats = <<>>
  /\ session = [s \in Sessions |-> 0]
  /\ inflight = EmptyBag
  /\ subs = EmptyBag
  /\ regs = SetToBag({[email |-> e, password |-> <<"pw123">>, status |-> "ok"] :
                        e \in Emails})
  /\ last = NoResponse

\* two players sharing one browser session: they log in and out, submit
\* scores and look at the dashboard
NextDash ==
  \/ \E e \in Emails : PostLogin("s1", e, <<"pw123">>)
  \/ \E h \in BagToSet(inflight) : PostLoginDone(h)
  \/ DeleteLogout("s1")
  \/ \E b \in {<<"7">>, <<"1", "0">>} : PostGameResult("s1", b)
  \/ \E h \in BagToSet(inflight) : PostGameResultWrite(h)
  \/ GetDashboard("s1")

SpecDash == InitDash /\ [][NextDash]_vars

\* the number of hundredths a text of the form d..d.dd stands for, -1 when
\* the text has another form
Hundredths(text) ==
  IF /\ Len(text) >= 4
     /\ text[Len(text) - 2] = "."
     /\ \A i \in 1..Len(text) : i # Len(text) - 2 => DigitVal(text[i]) < 10
    THEN DigitsValue(SelectSeq(text, LAMBDA c : c # "."), 10, 0)
    ELSE 0 - 1

\* h hundredths is total / games rounded to the nearest hundredth
NearestHundredth(h, total, games) ==
  /\ 2 * (h * games - 100 * total) <= games
  /\ 2 * (100 * total - h * games) <= games

\* C15: the dashboard is rendered with the stats row of the user the session
\* keeps, and of nobody else: its games_played, its best_score and
\* total_clicks / games_played to two decimals; after one submission of 7 it
\* shows 1, 7 and 7.00; for a user without a row it shows 0, 0 and 0; the
\* request changes no table
C15_Dashboard ==
  [][(Answered /\ last'.route = "GET /dashboard") =>
       /\ UNCHANGED <<users, user_stats, session, inflight, subs, regs>>
       /\ last'.kind = "render" =>
            LET view == last'.data[1]
                u == session[last'.sid]
                mine == RowsOf(user_stats, u)
            IN /\ u # 0
               /\ mine = {} =>
                    /\ view.gamesPlayed = 0 /\ view.bestScore = 0
                    /\ view.averageClicks = [fixed |-> FALSE, text |-> <<"0">>]
               /\ \A r \in mine :
                    /\ view.gamesPlayed = r.games_played
                    /\ view.bestScore = r.best_score
                    /\ view.averageClicks.fixed
                    /\ NearestHundredth(Hundredths(view.averageClicks.text),
                                        r.total_clicks, r.games_played)
               /\ (/\ \A x \in BagToSet(subs) :
                        x.uid = u => (x.score = Int_(7) /\ x.status = "200")
                   /\ CopiesOf(subs, {x \in BagToSet(subs) : x.uid = u}) = 1) =>
                    /\ view.gamesPlayed = 1 /\ view.bestScore = 7
                    /\ view.averageClicks.text = <<"7", ".", "0", "0">>]_vars

\* the dashboard of the user whose one submission was 7 was rendered while
\* another user has a row of its own
C15_Witness ==
  /\ last.route = "GET /dashboard"
  /\ last.kind = "render"
  /\ last.data[1].gamesPlayed = 1
  /\ last.data[1].averageClicks.text = <<"7", ".", "0", "0">>
  /\ Len(user_stats) = 2
  /\ \E k \in 1..2 : user_stats[k].best_score = 10

\* ---------------------------------------------------- the verify callback
\* the stored password of a users row: none, the hash of "pw123", the hash of ""
StoredPasswords == {<<>>, <<BcryptHash("pw123", 1)>>, <<BcryptHash("", 1)>>}

\* a users table of any rows the verify callback may be given: the two emails
\* in order, each row with any stored password, nobody logged in
InitVerify ==
  \E n \in 0..2 :
    \E stored \in [1..n -> StoredPasswords] :
      /\ users = [i \in 1..n |->
           [id |-> i, name |-> "Alice", email |-> <<"a@x.com", "b@x.com">>[i],
            password |-> stored[i]]]
      /\ user_stats = <<>>
      /\ session = [s \in Sessions |-> 0]
      /\ inflight = EmptyBag
      /\ subs = EmptyBag
      /\ regs = EmptyBag
      /\ last = NoResponse

\* logins with every credential, and logouts
NextVerify ==
  \/ \E e \in Emails, p \in LoginPasswords : PostLogin("s1", e, p)
  \/ \E h \in BagToSet(inflight) : PostLoginDone(h)
  \/ DeleteLogout("s1")

SpecVerify == InitVerify /\ [][NextVerify]_vars

\* C16: the verify callback checks in the order no user, missing password,
\* corrupt account, wrong password: with a row found, an empty or absent
\* password is answered 'Password is required' without a call of
\* bcrypt.compare, also when the row has no stored hash; a non-empty password
\* against a row with no stored hash is answered 'User account corrupted'
\* without a call; every other login calls bcrypt.compare once, on the
\* password and the stored hash
C16_CheckOrder ==
  LoginAnswered =>
    LET d == last.data[1]
        absent == d.password \in {<<>>, <<"">>}
    IN /\ d.rows = <<>> =>
            d.auth.message = "No user with that email" /\ d.calls = <<>>
       /\ (d.rows # <<>> /\ absent) =>
            d.auth.message = "Password is required" /\ d.calls = <<>>
       /\ (d.rows # <<>> /\ ~absent /\ d.rows[1].password = <<>>) =>
            d.auth.message = "User account corrupted" /\ d.calls = <<>>
       /\ (d.rows # <<>> /\ ~absent /\ d.rows[1].password # <<>>) =>
            /\ d.calls = <<[plain |-> d.password[1], hash |-> d.rows[1].password[1]]>>
            /\ ~d.auth.ok => d.auth.message = "Password incorrect"
       /\ ~d.auth.ok => last.kind = "redirect" /\ last.arg = "/login"

\* a login without a password was answered for a user with no stored hash
C16_Witness ==
  /\ LoginAnswered
  /\ last.data[1].rows # <<>>
  /\ last.data[1].rows[1].password = <<>>
  /\ last.data[1].password = <<"">>
  /\ last.data[1].auth.message = "Password is required"

\* C17: a session comes to keep a user only in the step that answers a
\* successful login on that session, and keeps the id of the user that was
\* authenticated: the row with the login's email, whose stored hash the
\* password verifies against; the step that answers a failed login, whatever
\* the failure, changes no session, no users row and no stats row; the id a
\* session keeps is always the id of a users row
C17_SessionBinding ==
  [][/\ \A s \in Sessions :
          (session'[s] # session[s] /\ session'[s] # 0) =>
            /\ last'.route = "POST /login" /\ last'.sid = s /\ last'.data # <<>>
            /\ last'.kind = "redirect" /\ last'.arg = "/"
            /\ LET d == last'.data[1]
               IN /\ d.auth.ok
                  /\ d.auth.user[1].id = session'[s]
                  /\ d.auth.user[1].email = d.email
                  /\ d.password \notin {<<>>, <<"">>}
                  /\ BcryptCompare(d.password[1], d.auth.user[1].password[1])
                  /\ \E i \in 1..Len(users) : users[i] = d.auth.user[1]
            /\ \E h \in Suspended("POST /login") : inflight' = Take(inflight, h)
     /\ \A h \in Suspended("POST /login") :
          (inflight' = Take(inflight, h) /\ ~last'.data[1].auth.ok) =>
            /\ session' = session
            /\ users' = users
            /\ user_stats' = user_stats
     /\ \A s \in Sessions :
          session'[s] # 0 => \E i \in 1..Len(users') : users'[i].id = session'[s]]_vars

\* the session keeps the second user after that user's login, in a table
\* whose first user has no stored hash
C17_Witness ==
  /\ LoginAnswered
  /\ last.data[1].auth.ok
  /\ session[last.sid] = 2
  /\ users[1].password = <<>>

\* the rows of table that are not user u's, in table order
OthersRows(table, u) == SelectSeq(table, LAMBDA r : r.user_id # u)

\* C18: a submission of user u changes nothing but u's stats row: the step in
\* which it arrives changes no table and no session; the step in which it
\* writes leaves the stats rows of every other user, the users table and every
\* session as they were, whatever submissions of other users are suspended;
\* and the stats rows change in no step but the write of their user's
\* submission
C18_OnlyOwnStats ==
  [][/\ \A h \in Suspended("POST /game/result") :
          inflight' = Take(inflight, h) =>
            /\ OthersRows(user_stats', h.uid) = OthersRows(user_stats, h.uid)
            /\ users' = users
            /\ session' = session
     /\ subs' # subs => (users' = users /\ session' = session)
     /\ (\E x \in BagToSet(subs') : x.status = "pending" /\ CopiesIn(x, subs') > CopiesIn(x, subs)) =>
          user_stats' = user_stats
     /\ user_stats' # user_stats =>
          \E h \in Suspended("POST /game/result") : inflight' = Take(inflight, h)]_vars

\* a submission was written and answered 200 while a submission of another
\* user, which arrived earlier or later, is suspended, both users having a row
C18_Witness ==
  /\ last.route = "POST /game/result"
  /\ last.arg = "200"
  /\ Len(user_stats) = 2
  /\ \E x, y \in BagToSet(subs) :
       x.uid # y.uid /\ x.status = "200" /\ y.status = "pending"

\* C19: no user has two stats rows, also after two first submissions of the
\* user both read no row before either inserted; and a user has a row only
\* when one of the user's submissions wrote and was answered 200
C19_OneStatsRow ==
  \A u \in UserIds \cup {user_stats[k].user_id : k \in 1..Len(user_stats)} :
    /\ Cardinality({k \in 1..Len(user_stats) : user_stats[k].user_id = u}) <= 1
    /\ RowsOf(user_stats, u) # {} =>
         \E x \in BagToSet(subs) : x.uid = u /\ x.status = "200"

\* two first submissions of a user overlapped: one inserted the row, the
\* INSERT of the other was refused and it was answered 500
C19_Witness ==
  /\ Len(user_stats) = 1
  /\ user_stats[1].games_played = 1
  /\ \E x, y \in BagToSet(subs) :
       /\ x.uid = y.uid /\ x.overlap /\ y.overlap
       /\ x.status = "200" /\ y.status = "500" /\ ~y.score.nan

====
